---- MODULE Spec2Model ----
(***************************************************************************)
(* Borrowing lifecycle of the library backend: borrowBook, returnBook and  *)
(* extendBorrowing (borrowing.controller.js), updateBook, deleteBook and   *)
(* syncBookStatus (book.controller.js) and the overdue checker             *)
(* (overdue.service.js), over the books / borrowing / notifications /      *)
(* audit_logs tables.                                                      *)
(*                                                                         *)
(* Every handler is an async function: each awaited store call is one      *)
(* atomic step, and the steps of different requests interleave.  A request *)
(* slot p runs one handler at a time; req[p].pc is the await it is at.     *)
(***************************************************************************)
EXTENDS Integers, Sequences, FiniteSets, TLC

\* ---------------------------------------------------------------- bounds
\* Last clock value explored (in ticks).
MaxNow == 2
\* Clock ticks per calendar day.
TicksPerDay == 1
\* Audit rows explored: a request about to write its audit row waits once the
\* audit log has reached this size.
MaxAudit == 2
\* Rejected store calls explored.
MaxFaults == 1

\* ------------------------------------------------- configuration values
\* process.env.MAX_BOOKS_PER_USER (default 5); the deployment modelled here
\* sets it to 1 so that the limit is reached with the books of the model.
MAX_BOOKS_PER_USER == 1
\* parseInt(process.env.MAX_BORROW_DAYS) || 14
MAX_BORROW_DAYS == 14

\* ------------------------------------------------------------ the tables
\* The request slots: at most this many handlers run at once.
Procs == {1, 2}

Users == {"u1", "u2", "u3"}
UserRole == [u1 |-> "ADMIN", u2 |-> "STAFF", u3 |-> "USER"]
UserStatus == [u1 |-> "ACTIVE", u2 |-> "ACTIVE", u3 |-> "INACTIVE"]

Books == {"b1", "b2"}
\* Titles as character sequences: the title of b1 occurs inside the title of b2.
BookTitle == [b1 |-> <<"A">>, b2 |-> <<"A", "B">>]

NoUser == "none"
NoBook == "none"
NoId == 0
NoDate == -1
NoNotes == ""
NoDays == -99
NoCopies == -9
NoStatus == "none"

\* ------------------------------------------------------- request bodies
UnknownUser == "u9"
UnknownBook == "b9"
UnknownId == 99
\* authorize('ADMIN', 'STAFF') lets only these callers reach the handlers.
Actors == {u \in Users : UserRole[u] \in {"ADMIN", "STAFF"}}
Admins == {u \in Users : UserRole[u] = "ADMIN"}

Borrow(a, u, b, d) == [actor |-> a, userId |-> u, bookId |-> b, borrowDays |-> d]
\* POST /borrow bodies sent while requests interleave: well-formed, from an
\* administrator, for either borrower.
ConcBorrows == {Borrow(a, u, b, 1) : a \in Admins, u \in {"u1", "u2"}, b \in Books}
\* POST /borrow bodies sent one request at a time: the well-formed ones with and
\* without borrowDays, and one body per check that can reject it.
SeqBorrows ==
  {Borrow("u1", u, b, 1) : u \in {NoUser, "u2"}, b \in Books}
    \cup {Borrow("u1", NoUser, "b2", NoDays), Borrow("u1", NoUser, "b2", 0)}
    \cup {Borrow("u2", "u1", "b2", 1), Borrow("u1", "u3", "b2", 1),
          Borrow("u1", UnknownUser, "b2", 1), Borrow("u1", NoUser, UnknownBook, 1),
          Borrow("u1", NoUser, NoBook, 1)}
    \cup {Borrow("u2", UnknownUser, UnknownBook, 1),
          Borrow("u1", UnknownUser, UnknownBook, 1), Borrow("u1", "u3", "b1", 1)}

NotesInputs == {NoNotes, "n1"}
AdditionalDaysInputs == {NoDays, 0, 1}

Update(b, t, c, s) == [bookId |-> b, copiesTotal |-> t, copiesAvailable |-> c, status |-> s]
\* PUT /books/:id bodies sent while requests interleave.
ConcUpdates ==
  {Update(b, NoCopies, 1, NoStatus) : b \in Books}
    \cup {Update(b, NoCopies, NoCopies, "MAINTENANCE") : b \in Books}
\* PUT /books/:id bodies sent one request at a time.
SeqUpdates ==
  ConcUpdates
    \cup {Update("b2", 1, NoCopies, NoStatus), Update("b2", 1, 2, NoStatus),
          Update(UnknownBook, NoCopies, 1, NoStatus)}

VARIABLES
  now,            \* the clock (new Date()), in ticks
  books,          \* table books: id -> row, for the rows that exist
  borrowings,     \* table borrowing: id -> row, for the rows that exist
  nextBorrowingId,\* the id the next created borrowing gets
  notifications,  \* table notifications, in creation order
  auditLog,       \* table audit_logs, in creation order
  req,            \* per request slot: the handler running and its locals
  pre,            \* the tables as they were when the request that runs alone started
  host,           \* the node process: "up", or "exited" after process.exit(1)
  faults          \* the number of store calls that have rejected

store == <<books, borrowings, nextBorrowingId, notifications, auditLog>>
vars == <<now, books, borrowings, nextBorrowingId, notifications, auditLog, req, pre, host,
         faults>>

\* ---------------------------------------------------------------- helpers
Days(d) == d * TicksPerDay

\* today.setHours(0, 0, 0, 0)
StartOfDay(t) == t - (t % TicksPerDay)

BookIds == DOMAIN books
BorrowingIds == DOMAIN borrowings

\* A request slot with no handler running.
Idle ==
  [pc |-> "idle", op |-> "none", actor |-> NoUser, userId |-> NoUser,
   bookId |-> NoBook, borrowingId |-> NoId, days |-> NoDays, notes |-> NoNotes,
   inTotal |-> NoCopies, inAvailable |-> NoCopies, inStatus |-> NoStatus,
   rdCopies |-> NoCopies, rdStatus |-> NoStatus, rdExpected |-> NoDate,
   rdNotes |-> NoNotes, list |-> <<>>, updated |-> 0, result |-> "none"]

\* No successful borrow is remembered.
NoLast == [borrowingId |-> NoId, bookId |-> NoBook, copiesBefore |-> NoCopies]

NoPre ==
  [owner |-> 0, now |-> 0, books |-> <<>>, borrowings |-> <<>>,
   notifications |-> <<>>, auditLog |-> <<>>, last |-> NoLast, synced |-> FALSE]

InFlight(p) == req[p].pc \notin {"idle", "done"}
AllIdle == \A p \in Procs : req[p].pc = "idle"

\* A new request takes the first free slot.
FirstFree(p) == req[p].pc = "idle" /\ \A q \in Procs : q < p => req[q].pc # "idle"

\* Room for one more audit row.
AuditRoom == Len(auditLog) < MaxAudit

\* The handlers that write an audit row when they succeed.
Audited == {"borrow", "return", "extend", "update", "delete"}

\* Where requests interleave, a request of an audited handler is admitted only
\* while the audit log, with one row per such request running, has room.
Admit ==
  Len(auditLog) + Cardinality({q \in Procs : InFlight(q) /\ req[q].op \in Audited})
    < MaxAudit

\* The response is sent: the handler has ended with `result`.
Respond(r, result) == [r EXCEPT !.pc = "done", !.result = result]

\* The tables as request p finds them when it starts.
Snapshot(p) ==
  [owner |-> p, now |-> now, books |-> books, borrowings |-> borrowings,
   notifications |-> notifications, auditLog |-> auditLog, last |-> pre.last,
   synced |-> pre.synced]

\* What is remembered once request p, which ran alone, has ended: the latest
\* successful borrow whose book no request has changed since, with the book's
\* copiesAvailable before that borrow, and whether p was a syncBookStatus call
\* that succeeded.
Remember(p) ==
  LET r == req[p]
      last == pre.last
  IN [NoPre EXCEPT !.last =
        IF r.op = "borrow" /\ r.result = "OK"
        THEN [borrowingId |-> r.borrowingId, bookId |-> r.bookId,
              copiesBefore |-> pre.books[r.bookId].copiesAvailable]
        ELSE IF last.bookId \in DOMAIN pre.books
                /\ (last.bookId \notin BookIds \/ books[last.bookId] # pre.books[last.bookId])
             THEN NoLast
        ELSE last,
      !.synced = r.op = "sync" /\ r.result = "OK"]

\* ------------------------------------------------------------------- Init
Init ==
  /\ now = 0
  /\ books = [b \in Books |->
               IF b = "b1"
               THEN [copiesTotal |-> 1, copiesAvailable |-> 1, status |-> "AVAILABLE"]
               ELSE [copiesTotal |-> 2, copiesAvailable |-> 2, status |-> "AVAILABLE"]]
  /\ borrowings = <<>>
  /\ nextBorrowingId = 1
  /\ notifications = <<>>
  /\ auditLog = <<>>
  /\ req = [p \in Procs |-> Idle]
  /\ pre = NoPre
  /\ host = "up"
  /\ faults = 0

\* ------------------------------------------------------------------ clock
Tick ==
  /\ now < MaxNow
  /\ now' = now + 1
  /\ UNCHANGED <<store, req, pre>>

\* ------------------------------------------------------------ borrowBook
\* userId !== req.user.id && req.user.role !== 'ADMIN'
BorrowForbidden(actor, uid) ==
  uid # NoUser /\ uid # actor /\ UserRole[actor] # "ADMIN"

\* BorrowDaysOf with the request's borrowDays ignored.
BorrowDaysOf_AlwaysDefault(d) == MAX_BORROW_DAYS

\* borrowDays || parseInt(process.env.MAX_BORROW_DAYS) || 14: a borrowDays that is
\* missing or 0 is falsy.
BorrowDaysOf(d) == IF d = NoDays \/ d = 0 THEN MAX_BORROW_DAYS ELSE d

\* prisma.borrowing.findFirst({ where: { userId, bookId, status: 'BORROWED' } })
ExistingBorrowing(uid, bid) ==
  \E i \in BorrowingIds :
    /\ borrowings[i].userId = uid
    /\ borrowings[i].bookId = bid
    /\ borrowings[i].status = "BORROWED"

\* prisma.borrowing.count({ where: { userId, status: 'BORROWED' } })
ActiveBorrowingsCount(uid) ==
  Cardinality({i \in BorrowingIds :
                 borrowings[i].userId = uid /\ borrowings[i].status = "BORROWED"})

\* The row prisma.borrowing.create inserts.
NewBorrowing(uid, bid, d) ==
  [userId |-> uid, bookId |-> bid, borrowDate |-> now,
   expectedReturnDate |-> now + Days(BorrowDaysOf(d)),
   actualReturnDate |-> NoDate, status |-> "BORROWED", notes |-> NoNotes]

\* copiesAvailable: { decrement: 1 }
DecrementCopies(row) == [row EXCEPT !.copiesAvailable = @ - 1]

\* Lines 17-31: the request body is read and the caller's permission checked.
BorrowStart(p, actor, uid, bid, d) ==
  /\ FirstFree(p)
  /\ LET r == [Idle EXCEPT !.op = "borrow", !.actor = actor,
                           !.userId = IF uid = NoUser THEN actor ELSE uid,
                           !.bookId = bid, !.days = d]
     IN req' = [req EXCEPT ![p] =
                  IF BorrowForbidden(actor, uid) THEN Respond(r, "FORBIDDEN")
                  ELSE IF bid = NoBook THEN Respond(r, "VALIDATION_ERROR")
                  ELSE [r EXCEPT !.pc = "b_findBook"]]
  /\ UNCHANGED <<now, store>>

\* Lines 34-44: prisma.book.findUnique and the two checks on its result.
BorrowFindBook(p) ==
  LET r == req[p] IN
  /\ r.pc = "b_findBook"
  /\ req' = [req EXCEPT ![p] =
               IF r.bookId \notin BookIds THEN Respond(r, "BOOK_NOT_FOUND")
               ELSE IF books[r.bookId].copiesAvailable <= 0
                    THEN Respond([r EXCEPT !.rdCopies = books[r.bookId].copiesAvailable],
                                 "NO_COPIES_AVAILABLE")
               ELSE [r EXCEPT !.pc = "b_findUser",
                              !.rdCopies = books[r.bookId].copiesAvailable]]
  /\ UNCHANGED <<now, store, pre>>

\* Lines 47-57: prisma.user.findUnique and the two checks on its result.
BorrowFindUser(p) ==
  LET r == req[p] IN
  /\ r.pc = "b_findUser"
  /\ req' = [req EXCEPT ![p] =
               IF r.userId \notin Users THEN Respond(r, "USER_NOT_FOUND")
               ELSE IF UserStatus[r.userId] # "ACTIVE" THEN Respond(r, "INACTIVE_USER")
               ELSE [r EXCEPT !.pc = "b_findExisting"]]
  /\ UNCHANGED <<now, store, pre>>

\* BorrowFindExisting with the limit checked before the existing borrowing.
BorrowFindExisting_LimitFirst(p) ==
  LET r == req[p] IN
  /\ r.pc = "b_findExisting"
  /\ req' = [req EXCEPT ![p] =
               IF ActiveBorrowingsCount(r.userId) >= MAX_BOOKS_PER_USER
               THEN Respond(r, "BORROWING_LIMIT_REACHED")
               ELSE IF ExistingBorrowing(r.userId, r.bookId)
                    THEN Respond(r, "ALREADY_BORROWED")
               ELSE [r EXCEPT !.pc = "b_create"]]
  /\ UNCHANGED <<now, store, pre>>

\* Lines 60-70: prisma.borrowing.findFirst and the check on its result.
BorrowFindExisting(p) ==
  LET r == req[p] IN
  /\ r.pc = "b_findExisting"
  /\ req' = [req EXCEPT ![p] =
               IF ExistingBorrowing(r.userId, r.bookId) THEN Respond(r, "ALREADY_BORROWED")
               ELSE [r EXCEPT !.pc = "b_count"]]
  /\ UNCHANGED <<now, store, pre>>

\* Lines 73-87: prisma.borrowing.count and the limit check.
BorrowCount(p) ==
  LET r == req[p] IN
  /\ r.pc = "b_count"
  /\ req' = [req EXCEPT ![p] =
               IF ActiveBorrowingsCount(r.userId) >= MAX_BOOKS_PER_USER
               THEN Respond(r, "BORROWING_LIMIT_REACHED")
               ELSE [r EXCEPT !.pc = "b_create"]]
  /\ UNCHANGED <<now, store, pre>>

\* Lines 90-119: prisma.borrowing.create.  The foreign key on book_id rejects the
\* insert when the book is gone.
BorrowCreate(p) ==
  LET r == req[p] IN
  /\ r.pc = "b_create"
  /\ IF r.bookId \in BookIds
     THEN /\ borrowings' = (nextBorrowingId :> NewBorrowing(r.userId, r.bookId, r.days))
                             @@ borrowings
          /\ nextBorrowingId' = nextBorrowingId + 1
          /\ req' = [req EXCEPT ![p] = [r EXCEPT !.pc = "b_decrement",
                                                 !.borrowingId = nextBorrowingId]]
     ELSE /\ req' = [req EXCEPT ![p] = Respond(r, "INTERNAL_ERROR")]
          /\ UNCHANGED <<borrowings, nextBorrowingId>>
  /\ UNCHANGED <<now, books, notifications, auditLog, pre>>

\* Lines 122-129: prisma.book.update with an atomic decrement.
BorrowDecrement(p) ==
  LET r == req[p] IN
  /\ r.pc = "b_decrement"
  /\ IF r.bookId \in BookIds
     THEN /\ books' = [books EXCEPT ![r.bookId] = DecrementCopies(@)]
          /\ req' = [req EXCEPT ![p] = [r EXCEPT !.pc = "b_audit"]]
     ELSE /\ req' = [req EXCEPT ![p] = Respond(r, "NOT_FOUND")]
          /\ UNCHANGED books
  /\ UNCHANGED <<now, borrowings, nextBorrowingId, notifications, auditLog, pre>>

\* Lines 132-145: prisma.auditLog.create.
BorrowAudit(p) ==
  LET r == req[p] IN
  /\ r.pc = "b_audit"
  /\ AuditRoom
  /\ auditLog' = Append(auditLog, [userId |-> r.actor, bookId |-> r.bookId,
                                   action |-> "BOOK_BORROWED"])
  /\ req' = [req EXCEPT ![p] = [r EXCEPT !.pc = "b_notify"]]
  /\ UNCHANGED <<now, books, borrowings, nextBorrowingId, notifications, pre>>

\* Lines 148-162: prisma.notification.create, then the 201 response.
BorrowNotify(p) ==
  LET r == req[p] IN
  /\ r.pc = "b_notify"
  /\ notifications' = Append(notifications,
                             [userId |-> r.userId, type |-> "INFO",
                              message |-> BookTitle[r.bookId], createdAt |-> now])
  /\ req' = [req EXCEPT ![p] = Respond(r, "OK")]
  /\ UNCHANGED <<now, books, borrowings, nextBorrowingId, auditLog, pre>>


\* ------------------------------------------------------------ returnBook
\* AlreadyReturned with every status but BORROWED rejected.
AlreadyReturned_NotBorrowed(status) == status # "BORROWED"

\* AlreadyReturned with the check left out.
AlreadyReturned_Never(status) == FALSE

\* borrowing.status === 'RETURNED'
AlreadyReturned(status) == status = "RETURNED"

\* notes || borrowing.notes
MergeNotes(notes, old) == IF notes = NoNotes THEN old ELSE notes

\* data: { status: 'RETURNED', actualReturnDate: new Date(), notes: ... }
ReturnedRow(row, notes, old) ==
  [row EXCEPT !.status = "RETURNED", !.actualReturnDate = now,
              !.notes = MergeNotes(notes, old)]

\* IncrementCopies with the update of the book left out.
IncrementCopies_Skipped(row) == row

\* copiesAvailable: { increment: 1 }
IncrementCopies(row) == [row EXCEPT !.copiesAvailable = @ + 1]

\* new Date() > new Date(borrowing.expectedReturnDate)
IsOverdue(expected) == now > expected

\* Lines 174-175: the request is read.
ReturnStart(p, actor, id, notes) ==
  /\ FirstFree(p)
  /\ req' = [req EXCEPT ![p] = [Idle EXCEPT !.pc = "r_find", !.op = "return",
                                            !.actor = actor, !.borrowingId = id,
                                            !.notes = notes]]
  /\ UNCHANGED <<now, store>>

\* Lines 178-192: prisma.borrowing.findUnique and the two checks on its result.
ReturnFind(p) ==
  LET r == req[p] IN
  /\ r.pc = "r_find"
  /\ req' = [req EXCEPT ![p] =
               IF r.borrowingId \notin BorrowingIds THEN Respond(r, "BORROWING_NOT_FOUND")
               ELSE LET b == borrowings[r.borrowingId]
                        s == [r EXCEPT !.userId = b.userId, !.bookId = b.bookId,
                                       !.rdStatus = b.status, !.rdNotes = b.notes,
                                       !.rdExpected = b.expectedReturnDate]
                    IN IF AlreadyReturned(b.status) THEN Respond(s, "ALREADY_RETURNED")
                       ELSE [s EXCEPT !.pc = "r_update"]]
  /\ UNCHANGED <<now, store, pre>>

\* Lines 195-217: prisma.borrowing.update, by id alone.
ReturnUpdate(p) ==
  LET r == req[p] IN
  /\ r.pc = "r_update"
  /\ IF r.borrowingId \in BorrowingIds
     THEN /\ borrowings' = [borrowings EXCEPT ![r.borrowingId] =
                              ReturnedRow(@, r.notes, r.rdNotes)]
          /\ req' = [req EXCEPT ![p] = [r EXCEPT !.pc = "r_increment"]]
     ELSE /\ req' = [req EXCEPT ![p] = Respond(r, "NOT_FOUND")]
          /\ UNCHANGED borrowings
  /\ UNCHANGED <<now, books, nextBorrowingId, notifications, auditLog, pre>>

\* Lines 220-227: prisma.book.update with an atomic increment.
ReturnIncrement(p) ==
  LET r == req[p] IN
  /\ r.pc = "r_increment"
  /\ IF r.bookId \in BookIds
     THEN /\ books' = [books EXCEPT ![r.bookId] = IncrementCopies(@)]
          /\ req' = [req EXCEPT ![p] = [r EXCEPT !.pc = "r_audit"]]
     ELSE /\ req' = [req EXCEPT ![p] = Respond(r, "NOT_FOUND")]
          /\ UNCHANGED books
  /\ UNCHANGED <<now, borrowings, nextBorrowingId, notifications, auditLog, pre>>

\* Lines 230-245: prisma.auditLog.create.
ReturnAudit(p) ==
  LET r == req[p] IN
  /\ r.pc = "r_audit"
  /\ AuditRoom
  /\ auditLog' = Append(auditLog, [userId |-> r.actor, bookId |-> r.bookId,
                                   action |-> "BOOK_RETURNED"])
  /\ req' = [req EXCEPT ![p] = [r EXCEPT !.pc = "r_notify"]]
  /\ UNCHANGED <<now, books, borrowings, nextBorrowingId, notifications, pre>>

\* Lines 248-263: prisma.notification.create, then the response.
ReturnNotify(p) ==
  LET r == req[p] IN
  /\ r.pc = "r_notify"
  /\ notifications' = Append(notifications,
                             [userId |-> r.userId,
                              type |-> IF IsOverdue(r.rdExpected) THEN "REMINDER" ELSE "INFO",
                              message |-> BookTitle[r.bookId], createdAt |-> now])
  /\ req' = [req EXCEPT ![p] = Respond(r, "OK")]
  /\ UNCHANGED <<now, books, borrowings, nextBorrowingId, auditLog, pre>>

ReturnStep(p) ==
  \/ ReturnFind(p)
  \/ ReturnUpdate(p)
  \/ ReturnIncrement(p)
  \/ ReturnAudit(p)
  \/ ReturnNotify(p)

\* ------------------------------------------------------- extendBorrowing
\* !additionalDays || additionalDays < 1
BadAdditionalDays(k) == k = NoDays \/ k = 0 \/ k < 1

\* NotExtendable with OVERDUE let through.
NotExtendable_OnlyReturned(status) == status = "RETURNED"

\* borrowing.status !== 'BORROWED'
NotExtendable(status) == status # "BORROWED"

\* NewExpectedReturn counted from the time of the request.
NewExpectedReturn_FromNow(expected, k) == now + Days(k)

\* newExpectedReturn.setDate(newExpectedReturn.getDate() + parseInt(additionalDays))
NewExpectedReturn(expected, k) == expected + Days(k)

\* Lines 426-431: the request is read and additionalDays validated.
ExtendStart(p, actor, id, k) ==
  /\ FirstFree(p)
  /\ LET r == [Idle EXCEPT !.op = "extend", !.actor = actor, !.borrowingId = id,
                           !.days = k]
     IN req' = [req EXCEPT ![p] =
                  IF BadAdditionalDays(k) THEN Respond(r, "VALIDATION_ERROR")
                  ELSE [r EXCEPT !.pc = "e_find"]]
  /\ UNCHANGED <<now, store>>

\* Lines 433-444: prisma.borrowing.findUnique and the two checks on its result.
ExtendFind(p) ==
  LET r == req[p] IN
  /\ r.pc = "e_find"
  /\ req' = [req EXCEPT ![p] =
               IF r.borrowingId \notin BorrowingIds THEN Respond(r, "BORROWING_NOT_FOUND")
               ELSE LET b == borrowings[r.borrowingId]
                        s == [r EXCEPT !.userId = b.userId, !.bookId = b.bookId,
                                       !.rdStatus = b.status,
                                       !.rdExpected = b.expectedReturnDate]
                    IN IF NotExtendable(b.status) THEN Respond(s, "INVALID_STATUS")
                       ELSE [s EXCEPT !.pc = "e_update"]]
  /\ UNCHANGED <<now, store, pre>>

\* Lines 447-463: prisma.borrowing.update with the date computed from the row read.
ExtendUpdate(p) ==
  LET r == req[p] IN
  /\ r.pc = "e_update"
  /\ IF r.borrowingId \in BorrowingIds
     THEN /\ borrowings' = [borrowings EXCEPT ![r.borrowingId].expectedReturnDate =
                              NewExpectedReturn(r.rdExpected, r.days)]
          /\ req' = [req EXCEPT ![p] = [r EXCEPT !.pc = "e_audit"]]
     ELSE /\ req' = [req EXCEPT ![p] = Respond(r, "NOT_FOUND")]
          /\ UNCHANGED borrowings
  /\ UNCHANGED <<now, books, nextBorrowingId, notifications, auditLog, pre>>

\* Lines 466-481: prisma.auditLog.create, then the response.
ExtendAudit(p) ==
  LET r == req[p] IN
  /\ r.pc = "e_audit"
  /\ AuditRoom
  /\ auditLog' = Append(auditLog, [userId |-> r.actor, bookId |-> r.bookId,
                                   action |-> "BORROWING_EXTENDED"])
  /\ req' = [req EXCEPT ![p] = Respond(r, "OK")]
  /\ UNCHANGED <<now, books, borrowings, nextBorrowingId, notifications, pre>>

ExtendStep(p) ==
  \/ ExtendFind(p)
  \/ ExtendUpdate(p)
  \/ ExtendAudit(p)

\* ------------------------------------------------------------ updateBook
\* copiesAvailable !== undefined && copiesTotal !== undefined
\*   && copiesAvailable > copiesTotal
InvalidCopies(total, available) ==
  available # NoCopies /\ total # NoCopies /\ available > total

\* The data object of prisma.book.update: only the fields the body gives.
UpdatedBook(row, total, available, status) ==
  [copiesTotal |-> IF total # NoCopies THEN total ELSE row.copiesTotal,
   copiesAvailable |-> IF available # NoCopies THEN available ELSE row.copiesAvailable,
   status |-> IF status # NoStatus THEN status ELSE row.status]

\* Lines 228-240: the request is read.
UpdateStart(p, actor, bid, total, available, status) ==
  /\ FirstFree(p)
  /\ req' = [req EXCEPT ![p] = [Idle EXCEPT !.pc = "u_find", !.op = "update",
                                            !.actor = actor, !.bookId = bid,
                                            !.inTotal = total, !.inAvailable = available,
                                            !.inStatus = status]]
  /\ UNCHANGED <<now, store>>

\* Lines 243-271: prisma.book.findUnique, then the validation of the copies.
UpdateFind(p) ==
  LET r == req[p] IN
  /\ r.pc = "u_find"
  /\ req' = [req EXCEPT ![p] =
               IF r.bookId \notin BookIds THEN Respond(r, "BOOK_NOT_FOUND")
               ELSE IF InvalidCopies(r.inTotal, r.inAvailable)
                    THEN Respond(r, "VALIDATION_ERROR")
               ELSE [r EXCEPT !.pc = "u_update"]]
  /\ UNCHANGED <<now, store, pre>>

\* Lines 274-292: prisma.book.update.
UpdateWrite(p) ==
  LET r == req[p] IN
  /\ r.pc = "u_update"
  /\ IF r.bookId \in BookIds
     THEN /\ books' = [books EXCEPT ![r.bookId] =
                         UpdatedBook(@, r.inTotal, r.inAvailable, r.inStatus)]
          /\ req' = [req EXCEPT ![p] = [r EXCEPT !.pc = "u_audit"]]
     ELSE /\ req' = [req EXCEPT ![p] = Respond(r, "NOT_FOUND")]
          /\ UNCHANGED books
  /\ UNCHANGED <<now, borrowings, nextBorrowingId, notifications, auditLog, pre>>

\* Lines 295-310: prisma.auditLog.create, then the response.
UpdateAudit(p) ==
  LET r == req[p] IN
  /\ r.pc = "u_audit"
  /\ AuditRoom
  /\ auditLog' = Append(auditLog, [userId |-> r.actor, bookId |-> r.bookId,
                                   action |-> "BOOK_UPDATED"])
  /\ req' = [req EXCEPT ![p] = Respond(r, "OK")]
  /\ UNCHANGED <<now, books, borrowings, nextBorrowingId, notifications, pre>>

UpdateStep(p) ==
  \/ UpdateFind(p)
  \/ UpdateWrite(p)
  \/ UpdateAudit(p)

\* -------------------------------------------------------- syncBookStatus
\* book.copiesAvailable > 0 ? 'AVAILABLE' : 'BORROWED'
CorrectStatus(copies) == IF copies > 0 THEN "AVAILABLE" ELSE "BORROWED"

\* where: { status: { notIn: ['MAINTENANCE', 'LOST'] } }
SyncCandidates == {b \in BookIds : books[b].status \notin {"MAINTENANCE", "LOST"}}

\* SyncStale with every book of the result updated.
SyncStale_All == SyncCandidates

\* The books of the result whose status differs from the one their copies give:
\* the loop awaits an update for these and passes over the others.
SyncStale == {b \in SyncCandidates : books[b].status # CorrectStatus(books[b].copiesAvailable)}

\* Every order in which a query may return the rows S.
RECURSIVE Orders(_)
Orders(S) ==
  IF S = {} THEN {<<>>}
  ELSE UNION {{<<x>> \o t : t \in Orders(S \ {x})} : x \in S}

\* Lines 455-463: prisma.book.findMany; the rows come back in some order.
SyncFind(p) ==
  /\ FirstFree(p)
  /\ \E order \in Orders(SyncStale) :
       LET items == [n \in 1..Len(order) |->
                       [id |-> order[n],
                        status |-> CorrectStatus(books[order[n]].copiesAvailable)]]
           r == [Idle EXCEPT !.op = "sync", !.list = items]
       IN req' = [req EXCEPT ![p] =
                    IF items = <<>> THEN Respond(r, "OK") ELSE [r EXCEPT !.pc = "y_update"]]
  /\ UNCHANGED <<now, store>>

\* Lines 466-485: the next prisma.book.update of the loop; after the last one,
\* the response with the number of books updated.
SyncUpdate(p) ==
  LET r == req[p] IN
  /\ r.pc = "y_update"
  /\ LET item == Head(r.list) IN
     IF item.id \in BookIds
     THEN /\ books' = [books EXCEPT ![item.id].status = item.status]
          /\ LET s == [r EXCEPT !.list = Tail(r.list), !.updated = r.updated + 1]
             IN req' = [req EXCEPT ![p] =
                          IF s.list = <<>> THEN Respond(s, "OK") ELSE s]
     ELSE /\ req' = [req EXCEPT ![p] = Respond(r, "NOT_FOUND")]
          /\ UNCHANGED books
  /\ UNCHANGED <<now, borrowings, nextBorrowingId, notifications, auditLog, pre>>

\* ----------------------------------------------------- checkOverdueBooks
\* OverdueBorrowings with the condition on expectedReturnDate left out.
OverdueBorrowings_AllBorrowed == {i \in BorrowingIds : borrowings[i].status = "BORROWED"}

\* where: { status: 'BORROWED', expectedReturnDate: { lt: new Date() } }
OverdueBorrowings ==
  {i \in BorrowingIds : borrowings[i].status = "BORROWED"
                          /\ borrowings[i].expectedReturnDate < now}

\* `Your book "${borrowing.book.title}" is overdue by ...`: the text around the
\* title is the same in every message and is left out, the quotes are kept.
OverdueMessage(title) == <<"\"">> \o title \o <<"\"">>

\* message: { contains: title }
Contains(message, title) ==
  \E n \in 1..(Len(message) - Len(title) + 1) :
    SubSeq(message, n, n + Len(title) - 1) = title

\* ExistingNotification with the lookup finding nothing.
ExistingNotification_Never(uid, title) == FALSE

\* prisma.notification.findFirst({ where: { userId, type: 'OVERDUE',
\*   createdAt: { gte: today }, message: { contains: borrowing.book.title } } })
ExistingNotification(uid, title) ==
  \E n \in 1..Len(notifications) :
    /\ notifications[n].userId = uid
    /\ notifications[n].type = "OVERDUE"
    /\ notifications[n].createdAt >= StartOfDay(now)
    /\ Contains(notifications[n].message, title)

\* Lines 13-24: the timer fires and prisma.borrowing.findMany returns the overdue
\* borrowings, each with its book, in some order.
SweepFind(p) ==
  /\ FirstFree(p)
  /\ \E order \in Orders(OverdueBorrowings) :
       LET items == [n \in 1..Len(order) |->
                       [id |-> order[n], userId |-> borrowings[order[n]].userId,
                        title |-> BookTitle[borrowings[order[n]].bookId]]]
           r == [Idle EXCEPT !.op = "sweep", !.list = items]
       IN req' = [req EXCEPT ![p] =
                    IF items = <<>> THEN Respond(r, "OK") ELSE [r EXCEPT !.pc = "s_update"]]
  /\ UNCHANGED <<now, store>>

\* Lines 28-31: prisma.borrowing.update of the next borrowing of the list, by id
\* alone; a failure ends the tick in the catch of line 70.
SweepUpdate(p) ==
  LET r == req[p] IN
  /\ r.pc = "s_update"
  /\ LET item == Head(r.list) IN
     IF item.id \in BorrowingIds
     THEN /\ borrowings' = [borrowings EXCEPT ![item.id].status = "OVERDUE"]
          /\ req' = [req EXCEPT ![p] = [r EXCEPT !.pc = "s_findNotification"]]
     ELSE /\ req' = [req EXCEPT ![p] = Respond(r, "ERROR_LOGGED")]
          /\ UNCHANGED borrowings
  /\ UNCHANGED <<now, books, nextBorrowingId, notifications, auditLog, pre>>

\* Lines 34-50: prisma.notification.findFirst for today's notification.
SweepFindNotification(p) ==
  LET r == req[p] IN
  /\ r.pc = "s_findNotification"
  /\ LET item == Head(r.list)
         s == [r EXCEPT !.list = Tail(r.list)]
     IN req' = [req EXCEPT ![p] =
                  IF ~ExistingNotification(item.userId, item.title)
                  THEN [r EXCEPT !.pc = "s_create"]
                  ELSE IF s.list = <<>> THEN Respond(s, "OK")
                  ELSE [s EXCEPT !.pc = "s_update"]]
  /\ UNCHANGED <<now, store, pre>>

\* Lines 51-66: prisma.notification.create, then the next borrowing of the list.
SweepCreate(p) ==
  LET r == req[p] IN
  /\ r.pc = "s_create"
  /\ LET item == Head(r.list)
         s == [r EXCEPT !.list = Tail(r.list), !.updated = r.updated + 1]
     IN /\ notifications' = Append(notifications,
                                   [userId |-> item.userId, type |-> "OVERDUE",
                                    message |-> OverdueMessage(item.title),
                                    createdAt |-> now])
        /\ req' = [req EXCEPT ![p] =
                     IF s.list = <<>> THEN Respond(s, "OK")
                     ELSE [s EXCEPT !.pc = "s_update"]]
  /\ UNCHANGED <<now, books, borrowings, nextBorrowingId, auditLog, pre>>

SweepStep(p) ==
  \/ SweepUpdate(p)
  \/ SweepFindNotification(p)
  \/ SweepCreate(p)

\* The response has been delivered and the slot takes the next request.
Finish(p) ==
  /\ req[p].pc = "done"
  /\ req' = [req EXCEPT ![p] = Idle]
  /\ UNCHANGED <<now, store>>

BorrowStep(p) ==
  \/ BorrowFindBook(p)
  \/ BorrowFindUser(p)
  \/ BorrowFindExisting(p)
  \/ BorrowCount(p)
  \/ BorrowCreate(p)
  \/ BorrowDecrement(p)
  \/ BorrowAudit(p)
  \/ BorrowNotify(p)

\* One step of the handler running in slot p.
Step(p) ==
  \/ BorrowStep(p)
  \/ ReturnStep(p)
  \/ ExtendStep(p)
  \/ UpdateStep(p)
  \/ SyncUpdate(p)
  \/ SweepStep(p)

\* ---------------------------------------------------------- store failures
\* An awaited store call of a request handler rejects: the handler's catch passes
\* the error to next(), the error middleware answers 500, and nothing the handler
\* has written before is undone.
StoreFails(p) ==
  /\ faults < MaxFaults
  /\ faults' = faults + 1
  /\ InFlight(p)
  /\ req[p].op \in {"borrow", "return", "extend", "update", "sync"}
  /\ req' = [req EXCEPT ![p] = Respond(req[p], "INTERNAL_ERROR")]
  /\ UNCHANGED <<now, store>>

\* The awaits of checkOverdueBooks that lie inside its try block (lines 11-70).
SweepTried == {"s_find", "s_update", "s_findNotification", "s_create"}

\* SweepCaught with no await inside the try block.
SweepCaught_Never(pc) == FALSE

\* A rejection of the await at pc is caught by the catch of line 70.
SweepCaught(pc) == pc \in SweepTried

\* What a rejected await of checkOverdueBooks does to the tick r at pc: caught,
\* the error is logged and the tick ends; not caught, the promise of the tick
\* rejects with no handler and the unhandledRejection listener exits the process.
SweepRejected(p, r, pc) ==
  IF SweepCaught(pc)
  THEN req' = [req EXCEPT ![p] = Respond(r, "ERROR_LOGGED")] /\ UNCHANGED host
  ELSE host' = "exited" /\ UNCHANGED req

\* The timer fires and prisma.borrowing.findMany rejects.
SweepFindFails(p) ==
  /\ faults < MaxFaults
  /\ faults' = faults + 1
  /\ FirstFree(p)
  /\ SweepRejected(p, [Idle EXCEPT !.op = "sweep"], "s_find")
  /\ UNCHANGED <<now, store>>

\* A later await of the tick rejects: the loop is left, the borrowings still on
\* the list are not processed.
SweepFails(p) ==
  /\ faults < MaxFaults
  /\ faults' = faults + 1
  /\ InFlight(p)
  /\ req[p].op = "sweep"
  /\ SweepRejected(p, req[p], req[p].pc)
  /\ UNCHANGED <<now, store>>

\* ------------------------------------------------------------------- Next
\* No store call rejects and the process stays up.
Sound == UNCHANGED <<host, faults>>

\* Nor do the remembered tables change.
Quiet == Sound /\ UNCHANGED pre

\* Requests arrive at any time and their steps interleave.
Next ==
  \/ Tick /\ Sound
  \/ \E p \in Procs, q \in ConcBorrows :
       /\ Admit
       /\ BorrowStart(p, q.actor, q.userId, q.bookId, q.borrowDays)
       /\ Quiet
  \/ \E p \in Procs, a \in Admins, i \in BorrowingIds :
       Admit /\ ReturnStart(p, a, i, NoNotes) /\ Quiet
  \/ \E p \in Procs, a \in Admins, i \in BorrowingIds :
       Admit /\ ExtendStart(p, a, i, 1) /\ Quiet
  \/ \E p \in Procs, a \in Admins, q \in ConcUpdates :
       /\ Admit
       /\ UpdateStart(p, a, q.bookId, q.copiesTotal, q.copiesAvailable, q.status)
       /\ Quiet
  \/ \E p \in Procs : SyncFind(p) /\ Quiet
  \/ \E p \in Procs : SweepFind(p) /\ Quiet
  \/ \E p \in Procs : Step(p) /\ Sound
  \/ \E p \in Procs : Finish(p) /\ Quiet

Spec == Init /\ [][Next]_vars

\* One request at a time: a request arrives, and the clock moves, only while no
\* other request is running.
SeqNext ==
  \/ AllIdle /\ Tick /\ Sound
  \/ \E p \in Procs, q \in SeqBorrows :
       AllIdle /\ BorrowStart(p, q.actor, q.userId, q.bookId, q.borrowDays)
         /\ pre' = Snapshot(p) /\ Sound
  \/ \E p \in Procs, a \in Admins, i \in BorrowingIds \cup {UnknownId}, n \in NotesInputs :
       AllIdle /\ ReturnStart(p, a, i, n) /\ pre' = Snapshot(p) /\ Sound
  \/ \E p \in Procs, a \in Admins, i \in BorrowingIds \cup {UnknownId},
        k \in AdditionalDaysInputs :
       AllIdle /\ ExtendStart(p, a, i, k) /\ pre' = Snapshot(p) /\ Sound
  \/ \E p \in Procs, a \in Admins, q \in SeqUpdates :
       AllIdle /\ UpdateStart(p, a, q.bookId, q.copiesTotal, q.copiesAvailable, q.status)
         /\ pre' = Snapshot(p) /\ Sound
  \/ \E p \in Procs : AllIdle /\ SyncFind(p) /\ pre' = Snapshot(p) /\ Sound
  \/ \E p \in Procs : AllIdle /\ SweepFind(p) /\ pre' = Snapshot(p) /\ Sound
  \/ \E p \in Procs : Step(p) /\ Sound
  \/ \E p \in Procs : Finish(p) /\ pre' = Remember(p) /\ Sound

SeqSpec == Init /\ [][SeqNext]_vars

\* Two POST /borrow requests for the one copy of b1, and nothing else.
RaceNext ==
  \/ \E p \in Procs, u \in {"u1", "u2"} :
       BorrowStart(p, "u1", u, "b1", 1) /\ Quiet
  \/ \E p \in Procs : BorrowStep(p) /\ Sound

RaceSpec == Init /\ [][RaceNext]_vars

\* Room for one more rejected store call.
FaultRoom == faults < MaxFaults

\* One request at a time, and an awaited store call of a request handler may
\* reject; requests are taken while FaultRoom holds.
FaultNext ==
  \/ FaultRoom /\ AllIdle /\ Tick /\ Sound
  \/ \E p \in Procs, q \in SeqBorrows :
       FaultRoom /\ AllIdle /\ BorrowStart(p, q.actor, q.userId, q.bookId, q.borrowDays)
         /\ pre' = Snapshot(p) /\ Sound
  \/ \E p \in Procs, a \in Admins, i \in BorrowingIds, n \in NotesInputs :
       FaultRoom /\ AllIdle /\ ReturnStart(p, a, i, n) /\ pre' = Snapshot(p) /\ Sound
  \/ \E p \in Procs, a \in Admins, i \in BorrowingIds :
       FaultRoom /\ AllIdle /\ ExtendStart(p, a, i, 1) /\ pre' = Snapshot(p) /\ Sound
  \/ \E p \in Procs, a \in Admins, q \in ConcUpdates :
       FaultRoom /\ AllIdle
         /\ UpdateStart(p, a, q.bookId, q.copiesTotal, q.copiesAvailable, q.status)
         /\ pre' = Snapshot(p) /\ Sound
  \/ \E p \in Procs : FaultRoom /\ AllIdle /\ SyncFind(p) /\ pre' = Snapshot(p) /\ Sound
  \/ \E p \in Procs : FaultRoom /\ AllIdle /\ SweepFind(p) /\ pre' = Snapshot(p) /\ Sound
  \/ \E p \in Procs : Step(p) /\ Sound
  \/ \E p \in Procs : Finish(p) /\ pre' = Remember(p) /\ Sound
  \/ \E p \in Procs : StoreFails(p) /\ UNCHANGED <<pre, host>>

FaultSpec == Init /\ [][FaultNext]_vars

\* No tick of the overdue checker is running.
NoTick == \A o \in Procs : req[o].op # "sweep"

\* The timer of the overdue checker fires while no other tick runs, and
\* prisma.borrowing.findMany answers or rejects.
SweepTimer ==
  \/ \E p \in Procs :
       host = "up" /\ NoTick /\ SweepFind(p) /\ pre' = Snapshot(p) /\ Sound
  \/ \E p \in Procs :
       host = "up" /\ NoTick /\ SweepFindFails(p) /\ pre' = Snapshot(p)

\* A borrow or a tick of the checker that has started takes its next step; an
\* await of a tick may reject.
SweepProgress(p) ==
  \/ host = "up" /\ BorrowStep(p) /\ Sound
  \/ host = "up" /\ SweepStep(p) /\ Sound
  \/ host = "up" /\ SweepFails(p) /\ UNCHANGED pre
  \/ /\ host = "up"
     /\ Finish(p)
     /\ pre' = IF pre.owner = p THEN NoPre ELSE pre
     /\ Sound

\* The overdue checker at work: POST /borrow requests interleave with each other
\* and with the ticks of the checker; the clock moves while no request runs, and
\* the ticks run one after another.  Nothing runs once the process has exited.
SweepNext ==
  \/ host = "up" /\ AllIdle /\ Tick /\ Sound
  \/ \E p \in Procs, q \in ConcBorrows :
       /\ host = "up"
       /\ Admit
       /\ BorrowStart(p, q.actor, q.userId, q.bookId, q.borrowDays)
       /\ Quiet
  \/ SweepTimer
  \/ \E p \in Procs : SweepProgress(p)

SweepSpec == Init /\ [][SweepNext]_vars

\* No POST /borrow request is running.
NoBorrow == \A o \in Procs : req[o].op # "borrow"

\* The checker beside the requests: POST /borrow requests come one after another
\* and interleave with the ticks of the checker, which come one after another too.
TimerNext ==
  \/ host = "up" /\ AllIdle /\ Tick /\ Sound
  \/ \E p \in Procs, q \in ConcBorrows :
       /\ host = "up"
       /\ Admit
       /\ NoBorrow
       /\ BorrowStart(p, q.actor, q.userId, q.bookId, q.borrowDays)
       /\ Quiet
  \/ SweepTimer
  \/ \E p \in Procs : SweepProgress(p)

\* The timer fires every interval (setInterval, line 81), and each request or
\* tick that has started goes on to its end.
FairTimerSpec ==
  /\ Init /\ [][TimerNext]_vars
  /\ SF_vars(SweepTimer)
  /\ \A p \in Procs : WF_vars(SweepProgress(p))

\* ------------------------------------------------------------ deleteBook
\* prisma.borrowing.count({ where: { bookId: id, status: 'BORROWED' } })
ActiveBorrowingsOfBook(bid) ==
  Cardinality({i \in BorrowingIds :
                 borrowings[i].bookId = bid /\ borrowings[i].status = "BORROWED"})

\* borrowing_book_id_fkey ... ON DELETE CASCADE: the borrowings left once book
\* bid is deleted.
CascadeBorrowings(bid) ==
  [i \in {j \in BorrowingIds : borrowings[j].bookId # bid} |-> borrowings[i]]

\* audit_logs_book_id_fkey ... ON DELETE SET NULL
NullifyAudit(bid) ==
  [n \in 1..Len(auditLog) |->
     IF auditLog[n].bookId = bid THEN [auditLog[n] EXCEPT !.bookId = NoBook]
     ELSE auditLog[n]]

\* Lines 320-322: the request is read.
DeleteStart(p, actor, bid) ==
  /\ FirstFree(p)
  /\ req' = [req EXCEPT ![p] = [Idle EXCEPT !.pc = "d_count", !.op = "delete",
                                            !.actor = actor, !.bookId = bid]]
  /\ UNCHANGED <<now, store>>

\* Lines 325-338: prisma.borrowing.count and the check on its result.
DeleteCount(p) ==
  LET r == req[p] IN
  /\ r.pc = "d_count"
  /\ req' = [req EXCEPT ![p] =
               IF ActiveBorrowingsOfBook(r.bookId) > 0 THEN Respond(r, "ACTIVE_BORROWINGS")
               ELSE [r EXCEPT !.pc = "d_find"]]
  /\ UNCHANGED <<now, store, pre>>

\* Lines 341-347: prisma.book.findUnique and the check on its result.
DeleteFind(p) ==
  LET r == req[p] IN
  /\ r.pc = "d_find"
  /\ req' = [req EXCEPT ![p] =
               IF r.bookId \notin BookIds THEN Respond(r, "BOOK_NOT_FOUND")
               ELSE [r EXCEPT !.pc = "d_delete"]]
  /\ UNCHANGED <<now, store, pre>>

\* Lines 350-352: prisma.book.delete, by id alone; the foreign keys delete the
\* book's borrowings and clear the book of its audit rows.
DeleteWrite(p) ==
  LET r == req[p] IN
  /\ r.pc = "d_delete"
  /\ IF r.bookId \in BookIds
     THEN /\ books' = [b \in BookIds \ {r.bookId} |-> books[b]]
          /\ borrowings' = CascadeBorrowings(r.bookId)
          /\ auditLog' = NullifyAudit(r.bookId)
          /\ req' = [req EXCEPT ![p] = [r EXCEPT !.pc = "d_audit"]]
     ELSE /\ req' = [req EXCEPT ![p] = Respond(r, "NOT_FOUND")]
          /\ UNCHANGED <<books, borrowings, auditLog>>
  /\ UNCHANGED <<now, nextBorrowingId, notifications, pre>>

\* Lines 355-371: prisma.auditLog.create, then the response.
DeleteAudit(p) ==
  LET r == req[p] IN
  /\ r.pc = "d_audit"
  /\ AuditRoom
  /\ auditLog' = Append(auditLog, [userId |-> r.actor, bookId |-> NoBook,
                                   action |-> "BOOK_DELETED"])
  /\ req' = [req EXCEPT ![p] = Respond(r, "OK")]
  /\ UNCHANGED <<now, books, borrowings, nextBorrowingId, notifications, pre>>

DeleteStep(p) ==
  \/ DeleteCount(p)
  \/ DeleteFind(p)
  \/ DeleteWrite(p)
  \/ DeleteAudit(p)

\* DELETE /books/:id requests interleave with POST /borrow requests and with the
\* ticks of the checker.
DeleteNext ==
  \/ Tick /\ Sound
  \/ \E p \in Procs, q \in ConcBorrows :
       /\ Admit
       /\ BorrowStart(p, q.actor, q.userId, q.bookId, q.borrowDays)
       /\ Quiet
  \/ \E p \in Procs, a \in Admins, b \in Books :
       Admit /\ DeleteStart(p, a, b) /\ Quiet
  \/ \E p \in Procs : SweepFind(p) /\ Quiet
  \/ \E p \in Procs : BorrowStep(p) /\ Sound
  \/ \E p \in Procs : SweepStep(p) /\ Sound
  \/ \E p \in Procs : DeleteStep(p) /\ Sound
  \/ \E p \in Procs : Finish(p) /\ Quiet

DeleteSpec == Init /\ [][DeleteNext]_vars

\* No POST /return request is running or waiting to hand back its slot.
NoReturn == \A o \in Procs : req[o].op # "return"

\* Returns racing: POST /borrow requests run while no return does, POST /return
\* requests interleave with each other, and a slot is handed back while no other
\* request is running.  pre holds the tables the first of the returns found.
ReturnRaceNext ==
  \/ \E p \in Procs, q \in ConcBorrows :
       /\ Admit
       /\ NoReturn
       /\ BorrowStart(p, q.actor, q.userId, q.bookId, q.borrowDays)
       /\ Quiet
  \/ \E p \in Procs, a \in Admins, i \in BorrowingIds :
       /\ NoBorrow
       /\ ReturnStart(p, a, i, NoNotes)
       /\ pre' = IF NoReturn THEN Snapshot(p) ELSE pre
       /\ Sound
  \/ \E p \in Procs : BorrowStep(p) /\ Sound
  \/ \E p \in Procs : ReturnStep(p) /\ Sound
  \/ \E p \in Procs :
       /\ \A o \in Procs \ {p} : ~InFlight(o)
       /\ Finish(p)
       /\ pre' = IF req[p].op = "return" /\ pre.owner = p THEN NoPre ELSE pre
       /\ Sound

ReturnRaceSpec == Init /\ [][ReturnRaceNext]_vars

\* The borrowing lifecycle with no manual adjustment: borrow, return and extend
\* requests and the ticks of the checker, their steps interleaved.
LifecycleNext ==
  \/ Tick /\ Sound
  \/ \E p \in Procs, q \in ConcBorrows :
       /\ Admit
       /\ BorrowStart(p, q.actor, q.userId, q.bookId, q.borrowDays)
       /\ Quiet
  \/ \E p \in Procs, a \in Admins, i \in BorrowingIds :
       Admit /\ ReturnStart(p, a, i, NoNotes) /\ Quiet
  \/ \E p \in Procs, a \in Admins, i \in BorrowingIds :
       Admit /\ ExtendStart(p, a, i, 1) /\ Quiet
  \/ \E p \in Procs : SweepFind(p) /\ Quiet
  \/ \E p \in Procs : BorrowStep(p) /\ Sound
  \/ \E p \in Procs : ReturnStep(p) /\ Sound
  \/ \E p \in Procs : ExtendStep(p) /\ Sound
  \/ \E p \in Procs : SweepStep(p) /\ Sound
  \/ \E p \in Procs : Finish(p) /\ Quiet

LifecycleSpec == Init /\ [][LifecycleNext]_vars

\* ================================================================ claims
Done(p, op) == req[p].pc = "done" /\ req[p].op = op

\* Request p ran alone and has ended with handler op: pre holds the tables it found.
Ended(p, op) == Done(p, op) /\ pre.owner = p

\* The tables are as the request found them.
StoreAsBefore ==
  /\ books = pre.books
  /\ borrowings = pre.borrowings
  /\ notifications = pre.notifications
  /\ auditLog = pre.auditLog

\* The borrowings of user u for book b, among the rows bs, with a status in S.
PairRows(bs, u, b, S) ==
  {i \in DOMAIN bs : bs[i].userId = u /\ bs[i].bookId = b /\ bs[i].status \in S}

\* The borrowings of user u, among the rows bs, that are not yet returned.
ActiveRows(bs, u) ==
  {i \in DOMAIN bs : bs[i].userId = u /\ bs[i].status \in {"BORROWED", "OVERDUE"}}

\* The checks that precede the one on an existing borrowing pass for request p:
\* the caller may borrow for the user, the book exists and had a copy, the user
\* exists and is ACTIVE.
PassesFirstChecks(p) ==
  LET r == req[p] IN
  /\ r.userId = r.actor \/ UserRole[r.actor] = "ADMIN"
  /\ r.bookId \in DOMAIN pre.books
  /\ pre.books[r.bookId].copiesAvailable > 0
  /\ r.userId \in Users
  /\ UserStatus[r.userId] = "ACTIVE"

\* C1: in every reachable state every book has 0 <= copiesAvailable <= copiesTotal.
C1_CopiesWithinTotal ==
  \A b \in BookIds :
    books[b].copiesAvailable >= 0 /\ books[b].copiesAvailable <= books[b].copiesTotal

\* C2: when the borrows of two distinct eligible users for a book with one copy
\* available have both ended, exactly one has succeeded, the other has failed
\* with NO_COPIES_AVAILABLE, and the book has copiesAvailable = 0.
C2_ExactlyOneBorrowSucceeds ==
  ((\A p \in Procs : Done(p, "borrow")) /\ req[1].userId # req[2].userId)
    => /\ Cardinality({p \in Procs : req[p].result = "OK"}) = 1
       /\ \A p \in Procs : req[p].result \in {"OK", "NO_COPIES_AVAILABLE"}
       /\ books["b1"].copiesAvailable = 0

\* C3: in every reachable state each (user, book) pair has at most one borrowing
\* with status BORROWED.
C3_OneBorrowedPerPair ==
  \A u \in Users, b \in Books :
    Cardinality(PairRows(borrowings, u, b, {"BORROWED"})) <= 1

\* C4: a borrow that passes the earlier checks, for a user whose borrowings with
\* status BORROWED or OVERDUE number maxBooksPerUser, fails with
\* BORROWING_LIMIT_REACHED and changes no table.
C4_LimitCountsOverdue ==
  \A p \in Procs :
    (/\ Ended(p, "borrow")
     /\ PassesFirstChecks(p)
     /\ PairRows(pre.borrowings, req[p].userId, req[p].bookId, {"BORROWED"}) = {}
     /\ Cardinality(ActiveRows(pre.borrowings, req[p].userId)) = MAX_BOOKS_PER_USER)
      => req[p].result = "BORROWING_LIMIT_REACHED" /\ StoreAsBefore

\* C5: in every step a borrowing's status stays as it is or changes along
\* BORROWED -> OVERDUE, BORROWED -> RETURNED or OVERDUE -> RETURNED; nothing
\* leaves RETURNED.
C5_StatusTransitions ==
  [][\A i \in DOMAIN borrowings \cap DOMAIN borrowings' :
       \/ borrowings'[i].status = borrowings[i].status
       \/ <<borrowings[i].status, borrowings'[i].status>>
            \in {<<"BORROWED", "OVERDUE">>, <<"BORROWED", "RETURNED">>,
                 <<"OVERDUE", "RETURNED">>}]_vars

\* C6: when a borrowing is returned and no request has changed its book between
\* the borrow that created it and this return, the book's copiesAvailable is back
\* at its value before the borrow, and the borrowing is RETURNED with
\* actualReturnDate set.
C6_BorrowReturnRoundTrip ==
  \A p \in Procs :
    (/\ Ended(p, "return")
     /\ req[p].result = "OK"
     /\ pre.last.borrowingId = req[p].borrowingId)
      => /\ books[req[p].bookId].copiesAvailable = pre.last.copiesBefore
         /\ borrowings[req[p].borrowingId].status = "RETURNED"
         /\ borrowings[req[p].borrowingId].actualReturnDate # NoDate

C6_Witness ==
  \E p \in Procs :
    /\ Ended(p, "return")
    /\ req[p].result = "OK"
    /\ pre.last.borrowingId = req[p].borrowingId

\* What a successful borrow of d days by request p has done: one borrowing
\* created, BORROWED, not returned, due d days after its borrowDate; one copy of
\* its book taken; every other borrowing and book as before.
BorrowEffect(p, d) ==
  LET r == req[p]
      i == r.borrowingId
  IN /\ i \notin DOMAIN pre.borrowings
     /\ BorrowingIds = DOMAIN pre.borrowings \cup {i}
     /\ \A j \in DOMAIN pre.borrowings : borrowings[j] = pre.borrowings[j]
     /\ borrowings[i].userId = r.userId
     /\ borrowings[i].bookId = r.bookId
     /\ borrowings[i].status = "BORROWED"
     /\ borrowings[i].actualReturnDate = NoDate
     /\ borrowings[i].borrowDate = pre.now
     /\ borrowings[i].expectedReturnDate = borrowings[i].borrowDate + d * TicksPerDay
     /\ books = [pre.books EXCEPT ![r.bookId].copiesAvailable = @ - 1]

\* C7, as stated: a successful borrow with borrowDays = d has the effect above
\* with d days, d being maxBorrowDays when borrowDays is not given.
C7_DueAfterGivenDays ==
  \A p \in Procs :
    (Ended(p, "borrow") /\ req[p].result = "OK")
      => BorrowEffect(p, IF req[p].days = NoDays THEN MAX_BORROW_DAYS ELSE req[p].days)

\* C7, amended: a successful borrow with borrowDays = d has the effect above with
\* d days, d being maxBorrowDays when borrowDays is not given or is 0.
C7_DueAfterGivenOrDefaultDays ==
  \A p \in Procs :
    (Ended(p, "borrow") /\ req[p].result = "OK")
      => BorrowEffect(p, IF req[p].days \in {NoDays, 0} THEN MAX_BORROW_DAYS
                         ELSE req[p].days)

C7_Witness ==
  \E p \in Procs : Ended(p, "borrow") /\ req[p].result = "OK" /\ req[p].days = 0

\* C8: a return of a borrowing that was BORROWED or OVERDUE succeeds, sets its
\* status to RETURNED and its actualReturnDate to the time of the return, adds one
\* to the copiesAvailable of its book, and leaves every other borrowing and book
\* as before.
C8_ReturnEffect ==
  \A p \in Procs :
    LET i == req[p].borrowingId IN
    (/\ Ended(p, "return")
     /\ i \in DOMAIN pre.borrowings
     /\ pre.borrowings[i].status \in {"BORROWED", "OVERDUE"})
      => /\ req[p].result = "OK"
         /\ BorrowingIds = DOMAIN pre.borrowings
         /\ \A j \in BorrowingIds \ {i} : borrowings[j] = pre.borrowings[j]
         /\ borrowings[i].status = "RETURNED"
         /\ borrowings[i].actualReturnDate = pre.now
         /\ borrowings[i].userId = pre.borrowings[i].userId
         /\ borrowings[i].bookId = pre.borrowings[i].bookId
         /\ borrowings[i].borrowDate = pre.borrowings[i].borrowDate
         /\ borrowings[i].expectedReturnDate = pre.borrowings[i].expectedReturnDate
         /\ books = [pre.books EXCEPT ![pre.borrowings[i].bookId].copiesAvailable = @ + 1]

C8_Witness ==
  \E p \in Procs :
    /\ Ended(p, "return")
    /\ req[p].borrowingId \in DOMAIN pre.borrowings
    /\ pre.borrowings[req[p].borrowingId].status = "OVERDUE"
    /\ req[p].result = "OK"

\* C9: a borrow that passes the earlier checks, for a user who has a borrowing of
\* the same book that is BORROWED or OVERDUE, fails with ALREADY_BORROWED, creates
\* no borrowing and changes no copiesAvailable.
C9_ActiveBlocksSecondBorrow ==
  \A p \in Procs :
    (/\ Ended(p, "borrow")
     /\ PassesFirstChecks(p)
     /\ PairRows(pre.borrowings, req[p].userId, req[p].bookId,
                 {"BORROWED", "OVERDUE"}) # {})
      => /\ req[p].result = "ALREADY_BORROWED"
         /\ borrowings = pre.borrowings
         /\ books = pre.books

\* C10: a return of a borrowing that is RETURNED fails with ALREADY_RETURNED and
\* leaves the borrowing, the books, the notifications and the audit log as they
\* were, at every step of the request and when it has ended.
C10_ReturnOfReturned ==
  \A p \in Procs :
    (/\ pre.owner = p
     /\ InFlight(p) \/ Done(p, "return")
     /\ req[p].op = "return"
     /\ req[p].borrowingId \in DOMAIN pre.borrowings
     /\ pre.borrowings[req[p].borrowingId].status = "RETURNED")
      => /\ StoreAsBefore
         /\ Done(p, "return") => req[p].result = "ALREADY_RETURNED"

C10_Witness ==
  \E p \in Procs :
    /\ Ended(p, "return")
    /\ req[p].borrowingId \in DOMAIN pre.borrowings
    /\ pre.borrowings[req[p].borrowingId].status = "RETURNED"
    /\ pre.borrowings[req[p].borrowingId].notes # req[p].notes
    /\ req[p].result = "ALREADY_RETURNED"

\* Book row bk has the status its copiesAvailable gives, unless it is set aside.
InStep(bk) ==
  bk.status \notin {"MAINTENANCE", "LOST"}
    => /\ bk.copiesAvailable > 0 => bk.status = "AVAILABLE"
       /\ bk.copiesAvailable <= 0 => bk.status = "BORROWED"

\* Request p, which runs alone, is running handler op or has ended it.
Running(p, op) == pre.owner = p /\ req[p].op = op /\ req[p].pc # "idle"

\* C11: a borrow or a return that has failed, a rejected store call included, has
\* left every table as it found it.
C11_FailureLeavesNoTrace ==
  \A p \in Procs :
    ((Ended(p, "borrow") \/ Ended(p, "return")) /\ req[p].result # "OK")
      => StoreAsBefore

\* C12: when a borrow or a return has succeeded, every book whose status is not
\* MAINTENANCE or LOST has status AVAILABLE if its copiesAvailable > 0 and
\* BORROWED otherwise.
C12_StatusInStepAfterBorrowOrReturn ==
  \A p \in Procs :
    ((Ended(p, "borrow") \/ Ended(p, "return")) /\ req[p].result = "OK")
      => \A b \in BookIds : InStep(books[b])

\* C13: no step of syncBookStatus changes a book whose status is MAINTENANCE or
\* LOST, nor any copiesAvailable.
C13_SyncSparesSetAside ==
  [][\A p \in Procs :
       (req[p].op = "sync" /\ req[p].pc = "y_update" /\ req'[p] # req[p])
         => \A b \in BookIds \cap DOMAIN books' :
              /\ books'[b].copiesAvailable = books[b].copiesAvailable
              /\ books[b].status \in {"MAINTENANCE", "LOST"} => books'[b] = books[b]]_vars

\* A syncBookStatus call that runs with no other request changes no book that is
\* MAINTENANCE or LOST, no copiesAvailable and no other table; when it has ended
\* every other book has the status its copiesAvailable gives, and the count it
\* reports is the number of books whose status it changed.
SyncEffectAlone ==
  \A p \in Procs :
    Running(p, "sync")
      => /\ BookIds = DOMAIN pre.books
         /\ \A b \in BookIds :
              /\ books[b].copiesAvailable = pre.books[b].copiesAvailable
              /\ books[b].copiesTotal = pre.books[b].copiesTotal
              /\ pre.books[b].status \in {"MAINTENANCE", "LOST"}
                   => books[b].status = pre.books[b].status
         /\ borrowings = pre.borrowings
         /\ notifications = pre.notifications
         /\ auditLog = pre.auditLog
         /\ Done(p, "sync")
              => /\ req[p].result = "OK"
                 /\ \A b \in BookIds : InStep(books[b])
                 /\ req[p].updated =
                      Cardinality({b \in BookIds : books[b].status # pre.books[b].status})

SyncEffectAloneWitness ==
  \E p \in Procs :
    /\ Ended(p, "sync")
    /\ req[p].updated >= 1
    /\ \E b \in BookIds : books[b].status = "MAINTENANCE"
    /\ \E b \in BookIds : books[b].status = "BORROWED" /\ pre.books[b].status = "AVAILABLE"

\* C14: a syncBookStatus call that follows a syncBookStatus call, with no other
\* request between the two, changes no table at any step and reports 0 updated
\* books.
C14_SyncIdempotent ==
  \A p \in Procs :
    (Running(p, "sync") /\ pre.synced)
      => /\ StoreAsBefore
         /\ Done(p, "sync") => req[p].result = "OK" /\ req[p].updated = 0

C14_Witness ==
  \E p \in Procs :
    /\ Ended(p, "sync")
    /\ pre.synced
    /\ req[p].updated = 0
    /\ \E b \in BookIds : books[b].status = "BORROWED"

\* The borrowings a tick that starts from the remembered tables selects.
PreOverdue ==
  {i \in DOMAIN pre.borrowings :
     /\ pre.borrowings[i].status = "BORROWED"
     /\ pre.borrowings[i].expectedReturnDate < pre.now}

\* The OVERDUE notifications for user u about book b created on the day of t.
OverdueNotices(u, b, t) ==
  {n \in 1..Len(notifications) :
     /\ notifications[n].userId = u
     /\ notifications[n].type = "OVERDUE"
     /\ notifications[n].message = OverdueMessage(BookTitle[b])
     /\ StartOfDay(notifications[n].createdAt) = StartOfDay(t)}

\* The OVERDUE notifications among ns.
IsOverdueNotice(n) == n.type = "OVERDUE"
OverdueOnly(ns) == SelectSeq(ns, IsOverdueNotice)

\* C15: with the ticks of the checker run one after another, no day has two
\* OVERDUE notifications for the same user and book, and a tick that selects no
\* borrowing creates no notification.
C15_OneOverdueNoticePerDay ==
  /\ \A u \in Users, b \in Books, t \in 0..MaxNow :
       Cardinality(OverdueNotices(u, b, t)) <= 1
  /\ \A p \in Procs :
       (Running(p, "sweep") /\ PreOverdue = {})
         => OverdueOnly(notifications) = OverdueOnly(pre.notifications)

C15_Witness ==
  \E p \in Procs, u \in Users, b \in Books :
    /\ Ended(p, "sweep")
    /\ PreOverdue = {}
    /\ Cardinality(PairRows(borrowings, u, b, {"OVERDUE"})) = 2
    /\ Cardinality(OverdueNotices(u, b, now)) = 1

\* C16: when a tick has ended with no rejected store call, each
\* borrowing it moved from BORROWED to OVERDUE has exactly one OVERDUE
\* notification of that day for its user and its book.
C16_OneNoticePerFlaggedBorrowing ==
  \A p \in Procs :
    (Ended(p, "sweep") /\ req[p].result = "OK")
      => \A i \in PreOverdue :
           borrowings[i].status = "OVERDUE"
             => Cardinality(OverdueNotices(borrowings[i].userId,
                                           borrowings[i].bookId, now)) = 1

\* C17: when a tick has ended, a rejected store call included,
\* at most one of the borrowings it selected is not OVERDUE.
C17_FailureDoesNotStopTick ==
  \A p \in Procs :
    Ended(p, "sweep")
      => Cardinality({i \in PreOverdue : borrowings[i].status # "OVERDUE"}) <= 1

\* A tick of the checker has ended in the catch of line 70.
TickFailed == \E p \in Procs : Done(p, "sweep") /\ req[p].result = "ERROR_LOGGED"

\* A tick of the checker has started and not yet handed back its slot.
TickRuns == \E p \in Procs : req[p].op = "sweep" /\ pre.owner = p

\* C18: the process never exits, and after a tick that failed the slot is freed
\* and a later tick runs.
C18_FailedTickIsContained ==
  /\ [](host = "up")
  /\ TickFailed ~> (NoTick /\ host = "up")
  /\ (NoTick /\ faults > 0) ~> TickRuns

C18_Witness ==
  \E p \in Procs : req[p].op = "sweep" /\ InFlight(p) /\ faults > 0 /\ host = "up"

\* C19: an extend with additionalDays >= 1 of a borrowing that is OVERDUE or
\* RETURNED changes no borrowing at any step and ends with INVALID_STATUS; an
\* extend that succeeds found the borrowing BORROWED.
C19_ExtendNeedsBorrowed ==
  \A p \in Procs :
    LET i == req[p].borrowingId IN
    (Running(p, "extend") /\ req[p].days >= 1 /\ i \in DOMAIN pre.borrowings)
      => /\ pre.borrowings[i].status \in {"OVERDUE", "RETURNED"}
              => /\ borrowings = pre.borrowings
                 /\ Done(p, "extend") => req[p].result = "INVALID_STATUS"
         /\ (Done(p, "extend") /\ req[p].result = "OK")
              => pre.borrowings[i].status = "BORROWED"

C19_Witness ==
  \E p \in Procs :
    /\ Ended(p, "extend")
    /\ req[p].days >= 1
    /\ req[p].borrowingId \in DOMAIN pre.borrowings
    /\ pre.borrowings[req[p].borrowingId].status = "OVERDUE"
    /\ req[p].result = "INVALID_STATUS"

\* C20: an extend by k >= 1 days that succeeds moves the borrowing's
\* expectedReturnDate k days on and leaves the rest of the borrowing, every other
\* borrowing, every book and the notifications as they were.
C20_ExtendEffect ==
  \A p \in Procs :
    (Ended(p, "extend") /\ req[p].result = "OK")
      => /\ req[p].days >= 1
         /\ req[p].borrowingId \in DOMAIN pre.borrowings
         /\ borrowings =
              [pre.borrowings EXCEPT ![req[p].borrowingId].expectedReturnDate =
                 @ + req[p].days * TicksPerDay]
         /\ books = pre.books
         /\ notifications = pre.notifications

C20_Witness ==
  \E p \in Procs :
    /\ Ended(p, "extend")
    /\ req[p].result = "OK"
    /\ pre.now > 0
    /\ borrowings[req[p].borrowingId].expectedReturnDate
         = pre.borrowings[req[p].borrowingId].expectedReturnDate + TicksPerDay

\* C21: a borrow for a user other than the caller passes the permission check
\* when the caller is STAFF or ADMIN; for a caller of any other role it ends with
\* FORBIDDEN and changes no table.
C21_ElevatedBorrowsForOthers ==
  \A p \in Procs :
    (Ended(p, "borrow") /\ req[p].userId # req[p].actor)
      => IF UserRole[req[p].actor] \in {"STAFF", "ADMIN"}
         THEN req[p].result # "FORBIDDEN"
         ELSE req[p].result = "FORBIDDEN" /\ StoreAsBefore

\* C22: no step destroys a book that a borrowing with status BORROWED
\* references.
C22_DestroyedOnlyWithoutBorrowed ==
  [][\A b \in BookIds : b \notin DOMAIN books' => ActiveBorrowingsOfBook(b) = 0]_vars

\* Both slots hold a return of the same borrowing, which the first of them found
\* not yet returned.
ReturnsRace ==
  /\ \A p \in Procs : req[p].op = "return"
  /\ req[1].borrowingId = req[2].borrowingId
  /\ pre.owner \in Procs
  /\ req[1].borrowingId \in DOMAIN pre.borrowings
  /\ pre.borrowings[req[1].borrowingId].status # "RETURNED"

\* C23: of two returns of the same not-yet-returned borrowing, at no step has the
\* book more than one copy above what the first return found, and when both have
\* ended one has succeeded, the other has failed with ALREADY_RETURNED and the
\* book has exactly one copy more.
C23_ConcurrentReturnsCountOnce ==
  ReturnsRace
    => LET b == pre.borrowings[req[1].borrowingId].bookId IN
       /\ books[b].copiesAvailable <= pre.books[b].copiesAvailable + 1
       /\ (\A p \in Procs : Done(p, "return"))
            => /\ {req[p].result : p \in Procs} = {"OK", "ALREADY_RETURNED"}
               /\ books[b].copiesAvailable = pre.books[b].copiesAvailable + 1

\* The answer the ordered checks of borrow give request p on the tables it found:
\* the error of the first check that fails, or OK.
FirstFailingCheck(p) ==
  LET r == req[p]
      mine == {i \in DOMAIN pre.borrowings :
                 pre.borrowings[i].userId = r.userId /\ pre.borrowings[i].status = "BORROWED"}
  IN IF r.userId # r.actor /\ UserRole[r.actor] # "ADMIN" THEN "FORBIDDEN"
     ELSE IF r.bookId = NoBook THEN "VALIDATION_ERROR"
     ELSE IF r.bookId \notin DOMAIN pre.books THEN "BOOK_NOT_FOUND"
     ELSE IF pre.books[r.bookId].copiesAvailable <= 0 THEN "NO_COPIES_AVAILABLE"
     ELSE IF r.userId \notin Users THEN "USER_NOT_FOUND"
     ELSE IF UserStatus[r.userId] # "ACTIVE" THEN "INACTIVE_USER"
     ELSE IF \E i \in mine : pre.borrowings[i].bookId = r.bookId THEN "ALREADY_BORROWED"
     ELSE IF Cardinality(mine) >= MAX_BOOKS_PER_USER THEN "BORROWING_LIMIT_REACHED"
     ELSE "OK"

\* C24: a borrow ends with the error of the first failing check in the order
\* permission, book exists, copies available, user exists, user ACTIVE, no
\* BORROWED borrowing of the pair, limit; while it is at its checks, and when it
\* has failed, every table is as it found it.
C24_ChecksInOrder ==
  \A p \in Procs :
    Running(p, "borrow")
      => /\ req[p].pc \in {"b_findBook", "b_findUser", "b_findExisting", "b_count",
                           "b_create"}
              => StoreAsBefore
         /\ Done(p, "borrow")
              => /\ req[p].result = FirstFailingCheck(p)
                 /\ req[p].result # "OK" => StoreAsBefore

C24_Witness ==
  \E p \in Procs :
    /\ Ended(p, "borrow")
    /\ req[p].result = "ALREADY_BORROWED"
    /\ Cardinality(ActiveRows(pre.borrowings, req[p].userId)) >= MAX_BOOKS_PER_USER
    /\ \E q \in Procs : q # p /\ req[q].pc = "idle"

\* Several checks fail at once on the request that has ended: the caller may not
\* borrow for the user, and neither the book nor the user exists.
C24_SeveralFail ==
  \E p \in Procs :
    /\ Ended(p, "borrow")
    /\ req[p].result = "FORBIDDEN"
    /\ req[p].bookId \notin DOMAIN pre.books
    /\ req[p].userId \notin Users

\* C25: a tick of the checker that runs with no other request changes no book at
\* any step, and when it has ended the borrowings that were BORROWED with
\* expectedReturnDate < now are OVERDUE and every other borrowing is as it was.
C25_TickFlagsExactlyTheDue ==
  \A p \in Procs :
    Running(p, "sweep")
      => /\ books = pre.books
         /\ BorrowingIds = DOMAIN pre.borrowings
         /\ \A i \in BorrowingIds \ PreOverdue : borrowings[i] = pre.borrowings[i]
         /\ Done(p, "sweep")
              => \A i \in PreOverdue :
                   borrowings[i] = [pre.borrowings[i] EXCEPT !.status = "OVERDUE"]

C25_Witness ==
  \E p \in Procs :
    /\ Ended(p, "sweep")
    /\ PreOverdue # {}
    /\ \E i \in BorrowingIds \ PreOverdue : borrowings[i].status = "BORROWED"

\* Borrowing i is not returned and past its expectedReturnDate.
Due(i) ==
  /\ i \in BorrowingIds
  /\ borrowings[i].status \in {"BORROWED", "OVERDUE"}
  /\ borrowings[i].expectedReturnDate < now

\* Borrowing i is OVERDUE and an OVERDUE notification for its user and its book
\* has been created.
Flagged(i) ==
  /\ i \in BorrowingIds
  /\ borrowings[i].status = "OVERDUE"
  /\ \E n \in 1..Len(notifications) :
       /\ notifications[n].userId = borrowings[i].userId
       /\ notifications[n].type = "OVERDUE"
       /\ notifications[n].message = OverdueMessage(BookTitle[borrowings[i].bookId])

\* C26: with the ticks going on and the rejected store calls at an end, every
\* borrowing that is due, one whose processing a rejected call has cut short
\* included, is in the end OVERDUE with an OVERDUE notification for its user and
\* its book.
C26_FailedBorrowingIsRetried ==
  \A i \in 1..MaxAudit : Due(i) ~> Flagged(i)

\* C27: a return of a borrowing that is not yet returned, of a book whose
\* copiesAvailable has already reached its copiesTotal, changes neither the book
\* nor the borrowing at any step and does not succeed.
C27_ReturnAboveTotalAborted ==
  \A p \in Procs :
    LET i == req[p].borrowingId IN
    (/\ Running(p, "return")
     /\ i \in DOMAIN pre.borrowings
     /\ pre.borrowings[i].status # "RETURNED"
     /\ pre.borrowings[i].bookId \in DOMAIN pre.books
     /\ pre.books[pre.borrowings[i].bookId].copiesAvailable
          >= pre.books[pre.borrowings[i].bookId].copiesTotal)
      => /\ books = pre.books
         /\ borrowings = pre.borrowings
         /\ Done(p, "return") => req[p].result # "OK"

\* The borrowings of book b that are not yet returned.
OutOf(b) ==
  {i \in BorrowingIds : borrowings[i].bookId = b
                          /\ borrowings[i].status \in {"BORROWED", "OVERDUE"}}

\* C28: with no manual adjustment, whenever every borrow, return, extend and tick
\* that was started has run to its end, each book's copiesAvailable plus the
\* number of its borrowings that are BORROWED or OVERDUE is its copiesTotal.
C28_CopiesConserved ==
  (\A p \in Procs : ~InFlight(p))
    => \A b \in BookIds :
         books[b].copiesAvailable + Cardinality(OutOf(b)) = books[b].copiesTotal

\* C29: in every reachable state every borrowing with status OVERDUE has its
\* expectedReturnDate before the current time.
C29_OverdueIsPastDue ==
  \A i \in BorrowingIds :
    borrowings[i].status = "OVERDUE" => borrowings[i].expectedReturnDate < now

\* C30: in every reachable state a borrowing has its actualReturnDate set if and
\* only if its status is RETURNED.
C30_ReturnDateIffReturned ==
  \A i \in BorrowingIds :
    borrowings[i].actualReturnDate # NoDate <=> borrowings[i].status = "RETURNED"

====
